---------------------------- MODULE Spec2Model ----------------------------
(***************************************************************************)
(* A model of cereal.NonBlocking: the background read goroutine ("pump"),  *)
(* the mutex-guarded buffer and error field, and the callers of Read,      *)
(* ReadDeadline, Reset and Close.                                          *)
(*                                                                         *)
(* Every action is one critical section of nb.mu (or one clock read, one   *)
(* sleep, one underlying io.Read) together with the goroutine-local        *)
(* computation that follows it up to the next shared access.  The mutex    *)
(* itself is the variable mu: a critical section takes and releases it in  *)
(* its one step, unless a Lock step has taken it before (SpecMutex).       *)
(*                                                                         *)
(* The opening of a port (Mode.StopBits, StopBits.Halves and               *)
(* Goburrow.OpenPort) has variables and a specification of its own.        *)
(*                                                                         *)
(* Time is discrete; one tick is 50ms.  A pending deadline is kept as the  *)
(* value time.Until(deadline) would return, which Tick decrements.         *)
(*                                                                         *)
(* The underlying stream hands out bytes numbered in the order it produces *)
(* them (byte i is the value i): NonBlocking never inspects a byte, and    *)
(* with pairwise distinct bytes any loss, duplication or reordering shows  *)
(* in the delivered sequence.                                              *)
(***************************************************************************)
EXTENDS Integers, Sequences, FiniteSets, TLC

\* ------------------------------------------------------------- bounds
\* Total number of bytes the underlying stream produces.
MaxBytes == 2
\* Largest destination slice handed to Read/ReadDeadline.
MaxDst == 2

\* ------------------------------------------------- program constants
\* time.Sleep(minD(100*time.Millisecond, until)): 100ms = 2 ticks.
PollInterval == 2
\* cfg.MaxReadBuffered = 32 * 1024
DefaultMaxBuffered == 32768
\* cfg.MaxReadSize = 1024
DefaultMaxReadSize == 1024

\* ------------------------------------------------------- input sets
Consumers == {"c1", "c2"}
\* NonBlockingConfig.ReadTimeout values (ticks).
ReadTimeouts == {0, 1}
\* NonBlockingConfig.MaxReadBuffered values.
MaxReadBuffereds == {0, 2}
\* NonBlockingConfig.MaxReadSize values.
MaxReadSizes == {0, 1}
\* NonBlockingConfig.MaxReadSize values for which the buffer reaches the
\* default threshold: zero and 32*1024.
ZeroMaxReadSizes == {0, DefaultMaxBuffered}
\* NonBlockingConfig.MaxReadBuffered and MaxReadSize values small enough for
\* the buffer to reach them.
PumpMaxReadBuffereds == {1, 2}
PumpMaxReadSizes == {1, 2}
\* Values of a NonBlockingConfig field as the caller may pass them.
RawConfigValues == {0 - 1, 0, 1}
\* deadline - now at the moment ReadDeadline is called.
DeadlineOffsets == {-1, 3}
\* time.Until is followed down to this value: below zero only its sign counts.
MinUntil == 0 - 1

Min(a, b) == IF a < b THEN a ELSE b
Max(a, b) == IF a > b THEN a ELSE b

\* ------------------------------------------------------------- state
VARIABLES
    io,             \* nb.io: the stream handed to NewNonBlocking, or "nil"
    defaultTimeout, \* nb.defaultTimeout
    maxBuffered,    \* nb.maxBuffered
    vmin,           \* the read goroutine's vmin (len(buf) of its read slice)
    buf,            \* nb.buf: the unread bytes, head first
    errfield,       \* nb.errfield: "nil", "EOF" or "panic"
    closed,         \* nb.io.Close() has been called
    ppc,            \* the read goroutine's position
    chunk,          \* the read goroutine's buf[:n] after nb.io.Read
    rerr,           \* the read goroutine's err after nb.io.Read
    pc,             \* each caller's position
    dst,            \* each caller's len(b), of its current or its last call
    got,            \* each caller's b[:n] so far
    until,          \* each caller's time.Until(deadline)
    sleep,          \* each caller's remaining sleep
    res,            \* each caller's last returned (n, err)
    produced,       \* history: bytes returned by nb.io.Read so far
    delivered,      \* history: bytes returned to callers so far
    discarded,      \* history: bytes dropped from nb.buf by Reset
    termAtCall,     \* history: each caller's current or last call was issued
                    \* with the stream finished
    slept,          \* history: each caller's current or last call has started
                    \* a time.Sleep
    seen,           \* history: how many stream bytes had been appended to
                    \* nb.buf when each caller's current or last call was issued
    mu,             \* nb.mu: the goroutine holding it, or "free"
    wait,           \* backoff.Wait of the read goroutine, nanoseconds (as
                    \* far as Followed keeps it; 0 once the goroutine has
                    \* returned and the variable is gone)
    stopBits,       \* Mode.StopBits of the port being opened
    halves,         \* what mode.StopBits.Halves() returned, NoCall before
    portStopBits,   \* goburrow.Config.StopBits handed to goburrow.Open
    openErr,        \* the error Goburrow.OpenPort returned itself, "none"
                    \* before the call
    eb,             \* an exponentialBackoff value: Wait, MaxWait, StartWait
                    \* and ExpMinusOne, each as the word of its bits
    ebLast,         \* the last call on eb: "new", "Hit", "Miss" or "panic";
                    \* "none" where no such value is exercised
    ebSlept         \* the argument of the last time.Sleep of eb.Miss

vars == <<io, defaultTimeout, maxBuffered, vmin, buf, errfield, closed, ppc, chunk,
          rerr, pc, dst, got, until, sleep, res, produced, delivered, discarded, termAtCall,
          slept, seen, mu, wait, stopBits, halves, portStopBits, openErr,
          eb, ebLast, ebSlept>>

ebVars == <<eb, ebLast, ebSlept>>
modeVars == <<stopBits, halves, portStopBits, openErr>>
cfgVars == <<io, defaultTimeout, maxBuffered, vmin>>
pumpVars == <<ppc, chunk, rerr, produced, wait>>
callVars == <<pc, dst, got, until, sleep, res, delivered>>
histVars == <<discarded, termAtCall, slept, seen>>

NoRes == [n |-> 0, err |-> "none", kind |-> "none"]

\* ------------------------------------------------------------- Mode
\* type StopBits byte: the values a StopBits can hold.
StopBitsValues == 0..255
\* const ( StopBits1 StopBits = iota; StopBits1Half; StopBits2 )
StopBits1 == 0
StopBits1Half == 1
StopBits2 == 2
\* Halves has not been called.
NoCall == 0 - 1

\* func (s StopBits) Halves() (halves int): the switch assigns the named
\* result and the function then returns the constant 0.
HalvesSwitch(s) ==
    IF s = StopBits1 THEN 2
    ELSE IF s = StopBits1Half THEN 3
    ELSE IF s = StopBits2 THEN 4
    ELSE 0
Halves(s) == LET assigned == HalvesSwitch(s) IN 0

\* No port is being opened.
NoPort ==
    /\ stopBits = StopBits1
    /\ halves = NoCall
    /\ portStopBits = NoCall
    /\ openErr = "none"

\* No exponentialBackoff value is exercised on its own.
NoBackoff ==
    /\ eb = [Wait |-> {}, MaxWait |-> {}, StartWait |-> {}, ExpMinusOne |-> {}]
    /\ ebLast = "none"
    /\ ebSlept = {}

\* What the opening of a port leaves alone: the adapter and its goroutine.
adapterVars == <<io, defaultTimeout, maxBuffered, vmin, buf, errfield, closed, ppc,
                 chunk, rerr, pc, dst, got, until, sleep, res, produced, delivered,
                 discarded, termAtCall, slept, seen, mu, wait>>

\* halves := mode.StopBits.Halves()
CallHalves ==
    /\ halves = NoCall
    /\ halves' = Halves(stopBits)
    /\ UNCHANGED <<stopBits, portStopBits, openErr, adapterVars, ebVars>>

\* Goburrow.OpenPort(portname, mode): StopBits1Half is refused, any other
\* setting reaches goburrow.Open with StopBits: mode.StopBits.Halves() / 2.
GoburrowOpenPort ==
    /\ openErr = "none"
    /\ IF stopBits = StopBits1Half
         THEN /\ openErr' = "errUnsupportedStopbits"
              /\ UNCHANGED portStopBits
         ELSE /\ openErr' = "nil"
              /\ portStopBits' = Halves(stopBits) \div 2
    /\ UNCHANGED <<stopBits, halves, adapterVars, ebVars>>

\* ------------------------------------------------------ construction
\* NewNonBlocking: the defaults for a zero MaxReadBuffered / MaxReadSize.
\* (Fault variant of EffMaxBuffered: a zero MaxReadBuffered is kept.)
EffMaxBufferedZero(m) == m
EffMaxBuffered(m) == IF m = 0 THEN DefaultMaxBuffered ELSE m
EffMaxReadSize(m) == IF m = 0 THEN DefaultMaxReadSize ELSE m

\* nb := &NonBlocking{...}: everything but the configuration is zero.
Zeroed ==
    /\ buf = <<>>
    /\ errfield = "nil"
    /\ closed = FALSE
    /\ chunk = <<>>
    /\ rerr = "nil"
    /\ pc = [c \in Consumers |-> "idle"]
    /\ dst = [c \in Consumers |-> 0]
    /\ got = [c \in Consumers |-> <<>>]
    /\ until = [c \in Consumers |-> 0]
    /\ sleep = [c \in Consumers |-> 0]
    /\ res = [c \in Consumers |-> NoRes]
    /\ produced = <<>>
    /\ delivered = <<>>
    /\ discarded = {}
    /\ termAtCall = [c \in Consumers |-> FALSE]
    /\ slept = [c \in Consumers |-> FALSE]
    /\ seen = [c \in Consumers |-> 0]
    /\ mu = "free"
    /\ wait = 0

\* Fault variant of BadArgs: only the nil stream is refused.
BadArgsNilOnly(rwc, t, b, s) == rwc = "nil"
\* rwc == nil, or cfg.ReadTimeout < 0 || cfg.MaxReadBuffered < 0 ||
\* cfg.MaxReadSize < 0: the arguments NewNonBlocking panics on.
BadArgs(rwc, t, b, s) == rwc = "nil" \/ t < 0 \/ b < 0 \/ s < 0

\* NewNonBlocking(rwc, cfg) is called; the variables of the configuration
\* hold its arguments and there is no goroutine.
InitNew ==
    /\ io \in {"nil", "rwc"}
    /\ defaultTimeout \in RawConfigValues
    /\ maxBuffered \in RawConfigValues
    /\ vmin \in RawConfigValues
    /\ ppc = "new"
    /\ Zeroed
    /\ NoPort
    /\ NoBackoff

\* NewNonBlocking has returned and its goroutine is at the loop test.
Init ==
    /\ io = "rwc"
    /\ defaultTimeout \in ReadTimeouts
    /\ \E m \in MaxReadBuffereds : maxBuffered = EffMaxBuffered(m)
    /\ \E m \in MaxReadSizes : vmin = EffMaxReadSize(m)
    /\ ppc = "check"
    /\ Zeroed
    /\ NoPort
    /\ NoBackoff

\* NewNonBlocking runs: it panics on bad arguments, before the goroutine
\* exists; otherwise it fills in the defaults and starts the goroutine.
NewNonBlocking ==
    /\ UNCHANGED mu
    /\ ppc = "new"
    /\ IF BadArgs(io, defaultTimeout, maxBuffered, vmin)
         THEN /\ ppc' = "ctorpanic"
              /\ UNCHANGED <<maxBuffered, vmin>>
         ELSE /\ ppc' = "check"
              /\ maxBuffered' = EffMaxBuffered(maxBuffered)
              /\ vmin' = EffMaxReadSize(vmin)
    /\ UNCHANGED <<io, defaultTimeout, buf, errfield, closed, chunk, rerr, produced>>
    /\ UNCHANGED <<pc, dst, got, until, sleep, res, delivered, discarded, termAtCall,
                   slept, seen, wait, ebVars, modeVars>>

\* NewNonBlocking has returned an adapter.
Constructed == ppc \notin {"new", "ctorpanic"}

\* ------------------------------------------------- buffer and error
\* nb.mu.Lock() by goroutine g returns: nobody else holds the mutex.  An
\* action that is one critical section takes the mutex if g does not hold it
\* yet and gives it back at its end.
Free(g) == mu \in {"free", g}
\* Fault variant of Unlock: the mutex stays with the goroutine.
UnlockKept(g) == g
\* nb.mu.Unlock()
Unlock(g) == "free"

\* bytes.Buffer.Read(b) with len(b) = k: the bytes copied out.
BufTake(b, k) == SubSeq(b, 1, Min(k, Len(b)))
\* Fault variant of BufRest: the bytes copied out stay in the buffer.
BufRestKeep(b, k) == b
\* bytes.Buffer.Read(b) with len(b) = k: the bytes left in the buffer.
BufRest(b, k) == SubSeq(b, Min(k, Len(b)) + 1, Len(b))
\* Fault variant of Truncate: the buffered bytes stay.
TruncateKeep(b) == b
\* nb.buf.Reset(): the buffer with its length set to zero.
Truncate(b) == <<>>
\* nb.bufwrite(b): append at the tail.
bufwrite(b, w) == b \o w
\* nb.Buffered()
Buffered == Len(buf)
\* Fault variant of setErr: the error is not stored.
setErrDrop(old, new) == old
\* Fault variant of setErr: setting a slot that is set empties it.
setErrToggle(old, new) == IF old = "nil" THEN new ELSE "nil"
\* nb.setErr(err): the new value of nb.errfield.
setErr(old, new) == new
\* Fault variant of minD: the poll interval whatever time remains.
minDFirst(a, b) == a
\* minD
minD(a, b) == IF a < b THEN a ELSE b


\* ------------------------------------------------ the read goroutine
\* nb.io.Read(buf[:]) returning k bytes: the next k bytes of the stream.
StreamBytes(k) == [i \in 1..k |-> Len(produced) + i]

\* backoff := exponentialBackoff{MaxWait: 150 * time.Millisecond,
\* StartWait: 1 * time.Nanosecond}, in nanoseconds.
MaxWait == 150000000
StartWait == 1
\* wait |= time.Duration(k), k = 1
OrOne(w) == IF w % 2 = 0 THEN w + 1 ELSE w
\* exponentialBackoff.Miss, after its sleep: wait |= 1; wait <<= exp with
\* exp = ExpMinusOne + 1 = 1; if wait > maxWait { wait = maxWait }
Miss(w) == Min(2 * OrOne(w), MaxWait)
\* 2 * (0 | 1), the shortest wait Miss leaves behind (nanoseconds).
WaitSeen == 2
\* The goroutine's wait is followed up to WaitSeen nanoseconds: a longer
\* wait is kept as WaitSeen.  Miss is monotone and never leaves less than
\* 2ns, so what is followed tells StartWait from a wait Miss has grown.
Followed(w) == Min(w, WaitSeen)
\* Fault variant of Hit: the wait is left as it is.
HitKeep(w) == w
\* exponentialBackoff.Hit: eb.Wait = eb.StartWait
Hit(w) == StartWait

\* ------------------------------------------- exponentialBackoff values
\* Wait, MaxWait and StartWait are time.Duration, an int64, and ExpMinusOne
\* is a uint32.  A value is held as its word: the set of the positions of
\* its one bits, bit 63 of a Duration being the two's-complement sign.
DurationBits == 64
Uint32Bits == 32
\* The word of n, for 0 <= n < 2^31.
Word(n) == {i \in 0..30 : (n \div 2^i) % 2 = 1}
\* The number a word below 2^6 stands for.
Count(x) == CHOOSE n \in 0..63 : Word(n) = x
\* a < 0 and a > b on int64
Negative(a) == (DurationBits - 1) \in a
Greater(a, b) ==
    IF Negative(a) # Negative(b) THEN Negative(b)
    ELSE LET d == (a \ b) \cup (b \ a)
         IN  d # {} /\ (CHOOSE i \in d : \A j \in d : j <= i) \in a
\* exp := eb.ExpMinusOne + 1, on uint32: the carry out of bit 31 is lost.
ExpOf(e) ==
    LET clear == (0..(Uint32Bits - 1)) \ e
    IN  IF clear = {} THEN {}
        ELSE LET k == CHOOSE i \in clear : \A j \in clear : i <= j
             IN  {i \in e : i > k} \cup {k}
\* wait |= time.Duration(k), k = 1
OrK(w) == w \cup {0}
\* wait <<= exp: the bits shifted past bit 63 are lost, and a count of 64
\* or more leaves zero.
ShiftLeft(w, exp) ==
    IF \E i \in exp : i >= 6 THEN {}
    ELSE {i + Count(exp) : i \in w} \cap (0..(DurationBits - 1))
\* if wait > maxWait { wait = maxWait }
Clamp(w, maxWait) == IF Greater(w, maxWait) THEN maxWait ELSE w
\* What Miss stores in eb.Wait.
Grown(b) == Clamp(ShiftLeft(OrK(b.Wait), ExpOf(b.ExpMinusOne)), b.MaxWait)

\* The fields a value is declared with (Wait is left at its zero value, as
\* in the read goroutine's literal): ceilings of 0, 5ns, 150ms, 2^33 ns,
\* 2^62 ns and the largest Duration; start values of 0, 1ns and 3ns; shifts
\* of 1, 2, 32, 64 and (ExpMinusOne = 2^32 - 1) 0.
MaxWaits == {Word(0), Word(5), Word(MaxWait), {33}, {62}, 0..62}
StartWaits == {Word(0), Word(StartWait), Word(3)}
ExpMinusOnes == {Word(0), Word(1), Word(31), Word(63), 0..31}
Backoffs ==
    [Wait : {Word(0)}, MaxWait : MaxWaits, StartWait : StartWaits,
     ExpMinusOne : ExpMinusOnes]

\* func (eb *exponentialBackoff) Hit()
EbHit ==
    /\ ebLast \in {"new", "Hit", "Miss"}
    /\ IF eb.MaxWait = {}
         THEN /\ ebLast' = "panic"
              /\ UNCHANGED eb
         ELSE /\ eb' = [eb EXCEPT !.Wait = eb.StartWait]
              /\ ebLast' = "Hit"
    /\ UNCHANGED <<ebSlept, adapterVars, modeVars>>

\* func (eb *exponentialBackoff) Miss()
EbMiss ==
    /\ ebLast \in {"new", "Hit", "Miss"}
    /\ IF eb.MaxWait = {}
         THEN /\ ebLast' = "panic"
              /\ UNCHANGED <<eb, ebSlept>>
         ELSE /\ ebSlept' = eb.Wait
              /\ eb' = [eb EXCEPT !.Wait = Grown(eb)]
              /\ ebLast' = "Miss"
    /\ UNCHANGED <<adapterVars, modeVars>>

\* Fault variant of LoopTest: the loop never ends.
LoopTestForever(e) == "throttle"
\* for nb.err() == nil: into the loop body, or out of the goroutine.
LoopTest(e) == IF e = "nil" THEN "throttle" ELSE "done"

\* for nb.err() == nil { ... }
PumpCheck ==
    /\ Free("pump")
    /\ mu' = Unlock("pump")
    /\ ppc = "check"
    /\ ppc' = LoopTest(errfield)
    /\ wait' = (IF LoopTest(errfield) = "done" THEN 0 ELSE wait)
    /\ UNCHANGED <<ebVars, modeVars, cfgVars, buf, errfield, closed, chunk, rerr, produced, callVars, histVars>>

\* Fault variant of Throttled: the goroutine never holds back.
ThrottledNever(len, max) == FALSE
\* Fault variant of Throttled: the goroutine holds back only above the
\* threshold.
ThrottledAbove(len, max) == max # 0 /\ len > max
\* nb.maxBuffered != 0 && nb.Buffered() >= nb.maxBuffered
Throttled(len, max) == max # 0 /\ len >= max

\* The backpressure test; the underlying read starts when it fails.
PumpThrottle ==
    /\ Free("pump")
    /\ mu' = Unlock("pump")
    /\ ppc = "throttle"
    /\ ppc' = (IF Throttled(Buffered, maxBuffered) THEN "miss" ELSE "read")
    /\ UNCHANGED <<wait, ebVars, modeVars, cfgVars, buf, errfield, closed, chunk, rerr, produced, callVars, histVars>>

\* backoff.Miss(); continue
PumpMiss ==
    /\ UNCHANGED mu
    /\ ppc = "miss"
    /\ ppc' = "check"
    /\ wait' = Followed(Miss(wait))
    /\ UNCHANGED <<ebVars, modeVars, cfgVars, buf, errfield, closed, chunk, rerr, produced, callVars, histVars>>

\* Fault variant of ReadLimit: the read slice is twice as long.
ReadLimitDouble(v) == v + v
\* buf := make([]byte, vmin): the most one nb.io.Read(buf[:]) can return.
ReadLimit(v) == v

\* n, err := nb.io.Read(buf[:]) returns: n <= len(buf), any error.
PumpRead ==
    /\ UNCHANGED mu
    /\ ppc = "read"
    /\ \E k \in 0..Min(ReadLimit(vmin), MaxBytes - Len(produced)), e \in {"nil", "EOF", "other"} :
          /\ chunk' = StreamBytes(k)
          /\ rerr' = e
          /\ produced' = produced \o StreamBytes(k)
    /\ ppc' = "write"
    /\ UNCHANGED <<wait, ebVars, modeVars, cfgVars, buf, errfield, closed, callVars, histVars>>

\* nb.io.Read panics; the deferred function runs next.
PumpReadPanic ==
    /\ UNCHANGED mu
    /\ ppc = "read"
    /\ ppc' = "recover"
    /\ UNCHANGED <<wait, ebVars, modeVars, cfgVars, buf, errfield, closed, chunk, rerr, produced, callVars, histVars>>

\* Fault variant of AfterWrite: every error of the read ends the goroutine.
AfterWriteAnyError(n, e) ==
    IF e # "nil" THEN "seterr" ELSE IF n = 0 THEN "miss" ELSE "check"
\* Where the goroutine goes after nb.bufwrite(buf[:n]), from n and err.
AfterWrite(n, e) ==
    IF e = "EOF" THEN "seterr" ELSE IF n = 0 THEN "miss" ELSE "check"

\* nb.bufwrite(buf[:n]), then the tests on err and n (backoff.Hit included).
PumpWrite ==
    /\ Free("pump")
    /\ mu' = Unlock("pump")
    /\ ppc = "write"
    /\ buf' = bufwrite(buf, chunk)
    /\ ppc' = AfterWrite(Len(chunk), rerr)
    /\ wait' = (IF AfterWrite(Len(chunk), rerr) = "check" THEN Followed(Hit(wait)) ELSE wait)
    /\ chunk' = (IF rerr = "EOF" THEN chunk ELSE <<>>)
    /\ rerr' = (IF rerr = "EOF" THEN rerr ELSE "nil")
    /\ UNCHANGED <<ebVars, modeVars, cfgVars, errfield, closed, produced, callVars, histVars>>

\* nb.setErr(err); return
PumpSetErr ==
    /\ Free("pump")
    /\ mu' = Unlock("pump")
    /\ ppc = "seterr"
    /\ errfield' = setErr(errfield, "EOF")
    /\ ppc' = "done"
    /\ wait' = 0
    /\ UNCHANGED <<ebVars, modeVars, cfgVars, buf, closed, chunk, rerr, produced, callVars, histVars>>

\* recover() != nil: nb.setErr(fmt.Errorf("panic in ..."))
PumpRecover ==
    /\ Free("pump")
    /\ mu' = Unlock("pump")
    /\ ppc = "recover"
    /\ errfield' = setErr(errfield, "panic")
    /\ ppc' = "done"
    /\ wait' = 0
    /\ UNCHANGED <<ebVars, modeVars, cfgVars, buf, closed, chunk, rerr, produced, callVars, histVars>>

Pump ==
    \/ PumpCheck
    \/ PumpThrottle
    \/ PumpMiss
    \/ PumpRead
    \/ PumpReadPanic
    \/ PumpWrite
    \/ PumpSetErr
    \/ PumpRecover

\* ------------------------------------------------------- the callers
\* The numbered bytes of a sequence (the histories follow only these).
Tracked(q) == {q[i] : i \in 1..Len(q)} \ {0}
TrackedSeq(q) == SelectSeq(q, LAMBDA x : x # 0)

\* How many numbered bytes nb.bufwrite has appended to nb.buf so far: all the
\* stream produced but the chunk the goroutine has read and not yet written.
Appended == Len(produced) - (IF ppc = "write" THEN Len(TrackedSeq(chunk)) ELSE 0)

\* The terminal error is set, the buffer is empty and the pump has stopped.
Finished == errfield # "nil" /\ buf = <<>> /\ ppc = "done"

\* What no step of a caller changes.
outside == <<ebVars, modeVars, cfgVars, errfield, closed, pumpVars, discarded>>

\* A call by c returns b[:n] = g with error e.
Return(c, g, e, k) ==
    /\ res' = [res EXCEPT ![c] = [n |-> Len(g), err |-> e, kind |-> k]]
    /\ delivered' = delivered \o TrackedSeq(g)
    /\ pc' = [pc EXCEPT ![c] = "idle"]
    /\ got' = [got EXCEPT ![c] = <<>>]
    /\ until' = [until EXCEPT ![c] = 0]
    /\ sleep' = [sleep EXCEPT ![c] = 0]

\* Fault variant of FastErr: the error is held back while bytes are returned.
FastErrDeferred(n, e) == IF n # 0 THEN "nil" ELSE e
\* Fault variant of Occupancy: the buffer is always taken to be empty.
OccupancyEmpty(len) == "wait"
\* Fault variant of DeadlineErr: the error is dropped on every return.
DeadlineErrNone(n, e) == "nil"
\* Fault variant of DeadlineErr: the error of the last fetch is returned
\* whether or not bytes are.
DeadlineErrKeep(n, e) == e
\* The error ReadDeadline returns once its loop has ended with n bytes and
\* error e: if n != 0 { return n, nil }.
DeadlineErr(n, e) == IF n # 0 THEN "nil" ELSE e

\* The error the zero-timeout Read returns with n bytes: return n, nb.errfield.
FastErr(n, e) == e

\* ReadDeadline's first shared access: nb.Buffered() in readNext when the
\* loop runs, nb.err() after the loop when len(b) = 0.
Enter(len) == IF 0 < len THEN "loop" ELSE "post"

\* Read(b) with nb.defaultTimeout == 0: one critical section.
ReadFast(c) ==
    /\ Free(c)
    /\ mu' = Unlock(c)
    /\ pc[c] = "idle"
    /\ defaultTimeout = 0
    /\ \E len \in 0..MaxDst :
          /\ dst' = [dst EXCEPT ![c] = len]
          /\ termAtCall' = [termAtCall EXCEPT ![c] = Finished]
          /\ slept' = [slept EXCEPT ![c] = FALSE]
          /\ seen' = [seen EXCEPT ![c] = Appended]
          /\ buf' = BufRest(buf, len)
          /\ Return(c, BufTake(buf, len), FastErr(Len(BufTake(buf, len)), errfield), "fast")
    /\ UNCHANGED outside

\* ReadDeadline(b, deadline) is entered with time.Until(deadline) = u.
Call(c, len, u) ==
    /\ UNCHANGED mu
    /\ dst' = [dst EXCEPT ![c] = len]
    /\ pc' = [pc EXCEPT ![c] = Enter(len)]
    /\ until' = [until EXCEPT ![c] = u]
    /\ termAtCall' = [termAtCall EXCEPT ![c] = Finished]
    /\ slept' = [slept EXCEPT ![c] = FALSE]
    /\ seen' = [seen EXCEPT ![c] = Appended]
    /\ UNCHANGED <<outside, buf, got, sleep, res, delivered>>

\* Read(b) with a timeout: deadline := time.Now().Add(nb.defaultTimeout).
ReadTimed(c) ==
    /\ pc[c] = "idle"
    /\ defaultTimeout # 0
    /\ \E len \in 0..MaxDst : Call(c, len, defaultTimeout)

\* ReadDeadline(b, deadline) called by the user.
CallReadDeadline(c) ==
    /\ pc[c] = "idle"
    /\ \E len \in 0..MaxDst, off \in DeadlineOffsets : Call(c, len, off)

\* readNext: n := nb.Buffered(), and the test n <= 0.
Occupancy(len) == IF len <= 0 THEN "wait" ELSE "take"

RNBuffered(c) ==
    /\ Free(c)
    /\ mu' = Unlock(c)
    /\ pc[c] = "loop"
    /\ pc' = [pc EXCEPT ![c] = Occupancy(Buffered)]
    /\ UNCHANGED <<outside, buf, dst, got, until, sleep, res, delivered, termAtCall, slept, seen>>

\* Fault variant of Expired: every deadline counts as past.
ExpiredAlways(u) == TRUE
\* until := time.Until(deadline); if until < 0 { return 0, errDeadlineExceeded }
Expired(u) == u < 0

RNUntil(c) ==
    /\ UNCHANGED mu
    /\ pc[c] = "wait"
    /\ IF Expired(until[c])
         THEN Return(c, got[c], DeadlineErr(Len(got[c]), "deadline"), "deadline")
         ELSE /\ sleep' = [sleep EXCEPT ![c] = minD(PollInterval, until[c])]
              /\ pc' = [pc EXCEPT ![c] = "errchk"]
              /\ UNCHANGED <<got, until, res, delivered>>
    /\ UNCHANGED <<outside, buf, dst, termAtCall, slept, seen>>

\* else if err := nb.err(); err != nil { return 0, err }; time.Sleep starts.
RNErr(c) ==
    /\ Free(c)
    /\ mu' = Unlock(c)
    /\ pc[c] = "errchk"
    /\ IF errfield # "nil"
         THEN /\ Return(c, got[c], DeadlineErr(Len(got[c]), errfield), "deadline")
              /\ UNCHANGED slept
         ELSE /\ pc' = [pc EXCEPT ![c] = "sleep"]
              /\ slept' = [slept EXCEPT ![c] = TRUE]
              /\ UNCHANGED <<got, until, sleep, res, delivered>>
    /\ UNCHANGED <<outside, buf, dst, termAtCall, seen>>

\* time.Sleep returns; n = nb.Buffered()
RNWake(c) ==
    /\ Free(c)
    /\ mu' = Unlock(c)
    /\ pc[c] = "sleep"
    /\ sleep[c] = 0
    /\ pc' = [pc EXCEPT ![c] = Occupancy(Buffered)]
    /\ UNCHANGED <<outside, buf, dst, got, until, sleep, res, delivered, termAtCall, slept, seen>>

\* nb.mu.Lock(); if nb.buf.Len() == 0 { return 0, nil }; n, _ = nb.buf.Read(b)
\* and ReadDeadline's loop test err == nil && n < len(b).
RNTake(c) ==
    /\ Free(c)
    /\ mu' = Unlock(c)
    /\ pc[c] = "take"
    /\ LET space == dst[c] - Len(got[c])
           g == got[c] \o BufTake(buf, space)
       IN /\ buf' = BufRest(buf, space)
          /\ IF Len(g) < dst[c]
               THEN /\ got' = [got EXCEPT ![c] = g]
                    /\ pc' = [pc EXCEPT ![c] = "loop"]
                    /\ UNCHANGED <<until, sleep, res, delivered>>
               ELSE Return(c, g, DeadlineErr(Len(g), "nil"), "deadline")
    /\ UNCHANGED <<outside, dst, termAtCall, slept, seen>>

\* After the loop with n == 0 and err == nil: if nb.err() != nil { ... }
RDPost(c) ==
    /\ Free(c)
    /\ mu' = Unlock(c)
    /\ pc[c] = "post"
    /\ IF errfield # "nil"
         THEN /\ pc' = [pc EXCEPT ![c] = "post2"]
              /\ UNCHANGED <<got, until, sleep, res, delivered>>
         ELSE Return(c, got[c], DeadlineErr(Len(got[c]), "nil"), "deadline")
    /\ UNCHANGED <<outside, buf, dst, termAtCall, slept, seen>>

\* err = nb.err(); return n, err
RDPost2(c) ==
    /\ Free(c)
    /\ mu' = Unlock(c)
    /\ pc[c] = "post2"
    /\ Return(c, got[c], errfield, "deadline")
    /\ UNCHANGED <<outside, buf, dst, termAtCall, slept, seen>>

Caller(c) ==
    \/ ReadFast(c)
    \/ ReadTimed(c)
    \/ CallReadDeadline(c)
    \/ RNBuffered(c)
    \/ RNUntil(c)
    \/ RNErr(c)
    \/ RNWake(c)
    \/ RNTake(c)
    \/ RDPost(c)
    \/ RDPost2(c)

\* Close: nb.setErr(io.EOF); return nb.io.Close()
Close ==
    /\ Free("user")
    /\ mu' = Unlock("user")
    /\ errfield' = setErr(errfield, "EOF")
    /\ closed' = TRUE
    /\ UNCHANGED <<ebVars, modeVars, cfgVars, buf, pumpVars, callVars, histVars>>

\* Reset: nb.buf.Reset()
Reset ==
    /\ Free("user")
    /\ mu' = Unlock("user")
    /\ buf' = Truncate(buf)
    /\ discarded' = discarded \cup Tracked(buf)
    /\ UNCHANGED <<ebVars, modeVars, cfgVars, errfield, closed, pumpVars, callVars, termAtCall, slept, seen>>

\* --------------------------------------------------------------- time
InCall(c) == pc[c] # "idle"

\* One tick passes: every pending time.Until drops, every sleeper sleeps on.
Tick ==
    /\ UNCHANGED mu
    /\ \E c \in Consumers : InCall(c)
    /\ until' = [c \in Consumers |->
                   IF InCall(c) THEN Max(until[c] - 1, MinUntil) ELSE until[c]]
    /\ sleep' = [c \in Consumers |->
                   IF pc[c] = "sleep" THEN Max(sleep[c] - 1, 0) ELSE sleep[c]]
    /\ UNCHANGED <<ebVars, modeVars, cfgVars, buf, errfield, closed, pumpVars, pc, dst, got, res, delivered,
                   histVars>>

\* Time as the deadline test in TestNonBlockingBlocked takes it: computing
\* takes no time, so the clock advances only while every caller in a call
\* sleeps, and a sleep lasts as long as asked (a caller spinning through
\* zero-length sleeps at its deadline lets the clock advance).
TickUrgent ==
    /\ UNCHANGED mu
    /\ \E c \in Consumers : InCall(c)
    /\ \A c \in Consumers :
          InCall(c) => (pc[c] = "sleep" /\ (sleep[c] > 0 \/ until[c] = 0))
    /\ until' = [c \in Consumers |-> IF InCall(c) THEN until[c] - 1 ELSE until[c]]
    /\ sleep' = [c \in Consumers |->
                   IF pc[c] = "sleep" THEN Max(sleep[c] - 1, 0) ELSE sleep[c]]
    /\ UNCHANGED <<ebVars, modeVars, cfgVars, buf, errfield, closed, pumpVars, pc, dst, got, res, delivered,
                   histVars>>

\* An underlying stream that never ends: its bytes are not numbered and the
\* histories do not follow them.
PumpReadEndless ==
    /\ UNCHANGED mu
    /\ ppc = "read"
    /\ \E k \in 0..Min(vmin, 1) : chunk' = [i \in 1..k |-> 0]
    /\ rerr' = "nil"
    /\ ppc' = "write"
    /\ UNCHANGED <<wait, ebVars, modeVars, cfgVars, buf, errfield, closed, produced, callVars, histVars>>

\* nb.io.Read(buf[:]) on a stream that never ends and fills the whole slice
\* or has nothing: len(buf) bytes or none, not numbered, no error.
PumpReadFull ==
    /\ UNCHANGED mu
    /\ ppc = "read"
    /\ \E k \in {0, ReadLimit(vmin)} : chunk' = [i \in 1..k |-> 0]
    /\ rerr' = "nil"
    /\ ppc' = "write"
    /\ UNCHANGED <<wait, ebVars, modeVars, cfgVars, buf, errfield, closed, produced, callVars, histVars>>

\* nb.io.Read(buf[:]) returns on a stream of any length: up to len(buf)
\* bytes, not numbered, and any error.
PumpReadAny ==
    /\ UNCHANGED mu
    /\ ppc = "read"
    /\ \E k \in 0..ReadLimit(vmin), e \in {"nil", "EOF", "other"} :
          /\ chunk' = [i \in 1..k |-> 0]
          /\ rerr' = e
    /\ ppc' = "write"
    /\ UNCHANGED <<wait, ebVars, modeVars, cfgVars, buf, errfield, closed, produced, callVars, histVars>>

\* The read goroutine on a stream of any length.
PumpAny ==
    \/ PumpCheck
    \/ PumpThrottle
    \/ PumpMiss
    \/ PumpReadAny
    \/ PumpReadPanic
    \/ PumpWrite
    \/ PumpSetErr
    \/ PumpRecover

\* An underlying read that stays blocked until Close is called and returns
\* (or panics) after it.
PumpReadLate == closed /\ PumpRead
PumpReadPanicLate == closed /\ PumpReadPanic

\* The steps the read goroutine takes on its own.
PumpSteps ==
    \/ PumpCheck
    \/ PumpThrottle
    \/ PumpMiss
    \/ PumpWrite
    \/ PumpSetErr
    \/ PumpRecover

\* The underlying read the goroutine has started returns or panics.
ReadReturns ==
    \/ PumpReadAny
    \/ PumpReadPanic

\* The steps of a call in progress.
InCallStep(c) ==
    \/ RNBuffered(c)
    \/ RNUntil(c)
    \/ RNErr(c)
    \/ RNWake(c)
    \/ RNTake(c)
    \/ RDPost(c)
    \/ RDPost2(c)

\* The steps of the read goroutine that do not wait on the underlying stream.
PumpInternal ==
    \/ PumpCheck
    \/ PumpThrottle
    \/ PumpMiss
    \/ PumpWrite

\* ---------------------------------------------------------- the mutex
\* Everything but the mutex.
guarded == <<ebVars, modeVars, cfgVars, buf, errfield, closed, pumpVars, callVars, histVars>>

\* Where the read goroutine is about to call nb.mu.Lock(): in nb.err() of
\* the loop test, nb.Buffered(), nb.bufwrite and nb.setErr.
PumpLocks == {"check", "throttle", "write", "seterr", "recover"}
\* Where a ReadDeadline is about to call nb.mu.Lock(): in nb.Buffered(),
\* nb.err() and the take of readNext, and in nb.err() after the loop.
CallerLocks == {"loop", "errchk", "take", "post", "post2"}

\* nb.mu.Lock() returns in the read goroutine, which now holds the mutex.
PumpLock ==
    /\ mu = "free"
    /\ ppc \in PumpLocks
    /\ mu' = "pump"
    /\ UNCHANGED guarded

\* nb.mu.Lock() returns in c's ReadDeadline (in n = nb.Buffered() once the
\* sleep before it is over).
CallerLock(c) ==
    /\ mu = "free"
    /\ pc[c] \in CallerLocks \/ (pc[c] = "sleep" /\ sleep[c] = 0)
    /\ mu' = c
    /\ UNCHANGED guarded

\* nb.mu.Lock() returns in a zero-timeout Read by c, who calls nothing else.
ReadLock(c) ==
    /\ mu = "free"
    /\ pc[c] = "idle"
    /\ defaultTimeout = 0
    /\ mu' = c
    /\ UNCHANGED guarded

\* ------------------------------------------------------- properties
IsPrefix(a, b) == Len(a) <= Len(b) /\ SubSeq(b, 1, Len(a)) = a

\* The step is the return of a call by c.
ReturnStep(c) == ReadFast(c) \/ (pc[c] # "idle" /\ pc'[c] = "idle")

\* C1 (Integrity): with one caller and no Reset, the bytes returned so far
\* are a prefix of the bytes the stream produced, and they are all of them
\* once the pump has stopped, the buffer is empty and no call is in progress.
C1_Integrity ==
    /\ IsPrefix(delivered, produced)
    /\ (ppc = "done" /\ buf = <<>> /\ \A c \in Consumers : pc[c] = "idle")
          => delivered = produced

\* A stream of MaxBytes bytes that ended with io.EOF has been returned whole.
C1_Witness ==
    /\ ppc = "done"
    /\ rerr = "EOF"
    /\ Len(produced) = MaxBytes
    /\ delivered = produced
    /\ pc["c1"] = "idle"

\* C2: a call that returns n > 0 bytes returns a nil error.
C2_ErrorOnlyWithZeroBytes ==
    \A c \in Consumers : res[c].n > 0 => res[c].err = "nil"

\* The last underlying read gave N > 0 bytes together with io.EOF, and the
\* pump has appended them.
EndedWithBytes ==
    /\ rerr = "EOF"
    /\ Len(chunk) > 0
    /\ ppc \in {"seterr", "done"}

\* C3 (Deferred error): on a stream whose last underlying read gave N > 0
\* bytes and io.EOF, the call that returns the last of those bytes returns a
\* nil error, and the next call (made with the error stored) returns 0
\* bytes and io.EOF.
C3_DeferredError ==
    [][\A c \in Consumers :
          /\ (EndedWithBytes /\ ReturnStep(c) /\ res'[c].n > 0
                 /\ delivered' = produced)
                => res'[c].err = "nil"
          /\ (EndedWithBytes /\ ReturnStep(c) /\ res[c].n > 0 /\ got[c] = <<>>
                 /\ delivered = produced /\ errfield = "EOF")
                => (res'[c].n = 0 /\ res'[c].err = "EOF")]_vars

\* C4: with a zero timeout, on a stream that ends with io.EOF (no Close),
\* a Read returns io.EOF only when every byte of the stream has been returned.
C4_NoErrorBeforeLastByte ==
    \A c \in Consumers :
       (res[c].kind = "fast" /\ dst[c] > 0 /\ res[c].err = "EOF" /\ ~closed)
          => delivered = produced

\* C5, as claimed: a call issued once the terminal error is set, the buffer
\* empty and the pump stopped returns zero bytes and the terminal error.
C5_TerminalErrorAlways ==
    [][\A c \in Consumers :
          (ReturnStep(c) /\ termAtCall'[c])
             => (res'[c].n = 0 /\ res'[c].err = errfield)]_vars

\* C5, amended: such a call returns zero bytes and a non-nil error: the
\* terminal error, or the deadline error when time.Until(deadline) is
\* negative at its first check.
C5_TerminalOrDeadline ==
    [][\A c \in Consumers :
          (ReturnStep(c) /\ termAtCall'[c])
             => /\ res'[c].n = 0
                /\ \/ res'[c].err = errfield
                   \/ res'[c].err = "deadline" /\ until[c] < 0]_vars

\* A call issued after the stream finished has returned the terminal error.
C5_Witness ==
    /\ termAtCall["c1"]
    /\ pc["c1"] = "idle"
    /\ res["c1"].kind = "deadline"
    /\ res["c1"].n = 0
    /\ res["c1"].err = "panic"

\* C6 (Deadline honored): a call that finds no byte and no terminal error
\* returns (0, deadline error), after its deadline and no later than one
\* poll interval after it; every sleep it starts lasts
\* min(poll interval, time remaining).
C6_DeadlineHonored ==
    [][\A c \in Consumers :
          /\ (pc[c] = "errchk" /\ pc'[c] = "sleep")
                => sleep'[c] = (IF until[c] < PollInterval THEN until[c]
                                                           ELSE PollInterval)
          /\ (ReturnStep(c) /\ res'[c].kind = "deadline" /\ dst[c] > 0
                 /\ res'[c].n = 0 /\ errfield = "nil")
                => (res'[c].err = "deadline" /\ until[c] < 0)
          /\ InCall(c)' => until'[c] >= 0 - PollInterval]_vars

\* A call has returned the deadline error while the underlying read is
\* still blocked, as in TestNonBlockingBlocked.
C6_Witness ==
    /\ pc["c1"] = "idle"
    /\ dst["c1"] > 0
    /\ res["c1"] = [n |-> 0, err |-> "deadline", kind |-> "deadline"]
    /\ errfield = "nil"
    /\ buf = <<>>
    /\ ppc = "read"
    /\ produced = <<>>
    /\ slept["c1"]

\* C7: every call whose deadline has passed eventually returns.
C7_ReturnsAfterDeadline ==
    \A c \in Consumers : (InCall(c) /\ until[c] < 0) ~> ~InCall(c)

C9_DeadlineRecoverable ==
    [][\A c \in Consumers :
          /\ (ReturnStep(c) /\ res'[c].err = "deadline")
                => /\ res'[c].n = 0
                   /\ buf' = buf
                   /\ errfield' = errfield
                   /\ delivered' = delivered
          /\ (ReturnStep(c) /\ defaultTimeout # 0 /\ res[c].err = "deadline"
                 /\ dst'[c] >= seen'[c] - Len(delivered))
                => /\ IsPrefix(delivered', produced)
                   /\ Len(delivered') >= seen'[c]
                   /\ res'[c].n > 0 => res'[c].err = "nil"]_vars

\* After a call that returned the deadline error, the next timed call has
\* taken the byte appended in between and is still in progress.
C9_Witness ==
    /\ defaultTimeout # 0
    /\ res["c1"] = [n |-> 0, err |-> "deadline", kind |-> "deadline"]
    /\ InCall("c1")
    /\ seen["c1"] = 1
    /\ got["c1"] = <<1>>
    /\ delivered = <<>>

\* C10 (Reset): Reset leaves the buffer empty and the error slot as it was;
\* no call returns a byte that a Reset dropped, and a call returns no byte
\* when every byte appended so far has been returned or dropped.
C10_ResetDiscards ==
    [][/\ Reset => (Len(buf') = 0 /\ errfield' = errfield)
       /\ \A c \in Consumers :
             ReturnStep(c) =>
                /\ \A i \in (Len(delivered) + 1)..Len(delivered') :
                      delivered'[i] \notin discarded
                /\ (Appended = Len(delivered) + Cardinality(discarded))
                      => res'[c].n = 0]_vars

\* A zero-timeout Read into a non-empty destination, issued after one byte
\* had been appended, returned nothing: Reset had dropped the byte.
C10_Witness ==
    /\ res["c1"] = [n |-> 0, err |-> "nil", kind |-> "fast"]
    /\ dst["c1"] > 0
    /\ seen["c1"] = 1
    /\ discarded = {1}
    /\ delivered = <<>>

\* C11 (Backpressure): the read goroutine starts an underlying read only
\* while the buffered length does not exceed the threshold, and leaves its
\* backpressure test for a read only with the length below the threshold;
\* its backpressure steps remove no byte from the buffer.
C11_Backpressure ==
    [][/\ (ppc # "read" /\ ppc' = "read")
             => (~(Len(buf') > maxBuffered) /\ Len(buf) < maxBuffered)
       /\ (ppc \in {"throttle", "miss"} /\ ppc' # ppc) => buf' = buf]_vars

\* The goroutine is held back with more bytes buffered than the threshold.
C11_Witness ==
    /\ ppc = "miss"
    /\ Len(buf) > maxBuffered

\* C12: the buffered length never exceeds the effective threshold plus one
\* read size.
C12_BufferBound == Len(buf) <= maxBuffered + vmin

\* The buffer holds as much as one read on top of a length just below the
\* threshold can give: more than the threshold.
C12_Witness ==
    /\ maxBuffered = 2
    /\ vmin = 2
    /\ Len(buf) = maxBuffered - 1 + vmin
    /\ ppc = "check"

\* C13: the error slot is empty at first and, once set, is set in every
\* later state.
C13_SlotStaysSet ==
    /\ errfield = "nil"
    /\ [][errfield # "nil" => errfield' # "nil"]_vars

\* The slot is set, the read goroutine has ended, and a call issued after
\* that has returned the error.
C13_Witness ==
    /\ errfield # "nil"
    /\ ppc = "done"
    /\ termAtCall["c1"]
    /\ pc["c1"] = "idle"
    /\ res["c1"].err = errfield

\* C14: a set of the error slot that finds it set leaves the stored value
\* as it is.
C14_FirstErrorStays == [][errfield # "nil" => errfield' = errfield]_vars

\* C15 as stated: once the error slot is set, no step makes the buffered
\* sequence longer.
C15_NoAppendAfterError == [][errfield # "nil" => Len(buf') <= Len(buf)]_vars

\* The positions from which the read goroutine starts no further read.
PumpLeaving == {"check", "miss", "seterr", "recover", "done"}

\* C15: once the error slot is set, only the bufwrite of the read that was
\* under way (or about to start) when it was set makes the buffer longer,
\* and after that, as whenever the goroutine is at or past its loop test
\* with the slot set, the goroutine starts no further read.
C15_AtMostOneLateAppend ==
    [][/\ (errfield # "nil" /\ Len(buf') > Len(buf))
             => (ppc = "write" /\ ppc' \in PumpLeaving)
       /\ (errfield # "nil" /\ ppc \in PumpLeaving) => ppc' \in PumpLeaving]_vars

\* A zero-timeout Read into a non-empty destination returned (0, io.EOF),
\* so the slot was set with the buffer empty; the buffer holds bytes now.
C15_Witness ==
    /\ res["c1"] = [n |-> 0, err |-> "EOF", kind |-> "fast"]
    /\ dst["c1"] > 0
    /\ errfield = "EOF"
    /\ Len(buf) > 0

C17_CloseUnwindsEmpty ==
    [][\A c \in Consumers :
          (ReturnStep(c) /\ res'[c].kind = "deadline" /\ closed /\ slept[c]
              /\ until[c] >= 0)
             => (res'[c].n = 0 /\ res'[c].err # "nil")]_vars

\* C17: Close stores io.EOF in the error slot and closes the stream.  Once
\* the slot is set a call starts no further sleep, and no sleep is longer
\* than the poll interval; a call that has slept on the empty buffer of a
\* silent stream and returns after Close with its deadline not yet reached
\* returns the error then stored when it returns no byte, and a nil error
\* with the bytes the read goroutine appended after Close otherwise.
C17_CloseUnwinds ==
    [][/\ (~closed /\ closed') => errfield' = "EOF"
       /\ \A c \in Consumers :
             /\ errfield # "nil" => ~(pc[c] = "errchk" /\ pc'[c] = "sleep")
             /\ sleep'[c] <= PollInterval
             /\ (ReturnStep(c) /\ res'[c].kind = "deadline" /\ closed /\ slept[c]
                    /\ until[c] >= 0)
                   => IF res'[c].n = 0
                        THEN res'[c].err = errfield /\ errfield # "nil"
                        ELSE res'[c].err = "nil"]_vars

\* A call that slept on the empty buffer has returned (0, io.EOF) after
\* Close, while the underlying read is still blocked.
C17_Witness ==
    /\ closed
    /\ ppc = "read"
    /\ slept["c1"]
    /\ pc["c1"] = "idle"
    /\ dst["c1"] > 0
    /\ res["c1"] = [n |-> 0, err |-> "EOF", kind |-> "deadline"]

\* C18 (Pump termination): when the error slot is set, and every underlying
\* read that has started returns, the read goroutine eventually ends; at
\* its loop test with the slot set, its next step ends it.
C18_PumpTerminates ==
    /\ [][(ppc = "check" /\ errfield # "nil" /\ ppc' # ppc) => ppc' = "done"]_vars
    /\ (errfield # "nil") ~> (ppc = "done")

\* The goroutine has ended after Close, with bytes left in the buffer.
C18_Witness ==
    /\ closed
    /\ errfield = "EOF"
    /\ ppc = "done"
    /\ Len(buf) > 0

\* Every numbered byte that is buffered, held by a call or returned.
InHand == delivered \o got["c1"] \o got["c2"] \o buf

\* C19: with two consumers, no byte is held or returned twice and none that
\* Reset dropped is; once the read goroutine has ended, the buffer is empty
\* and no call is in progress, every byte appended was returned or dropped
\* by Reset; a fetch that finds the buffer emptied under it returns nothing
\* to the caller and sends the call round its loop again.
C19_DeliveredOnce ==
    /\ [](/\ Cardinality(Tracked(InHand)) = Len(InHand)
          /\ Tracked(InHand) \cap discarded = {}
          /\ (ppc = "done" /\ buf = <<>> /\ \A c \in Consumers : pc[c] = "idle")
                => Tracked(delivered) \cup discarded = 1..Len(produced))
    /\ [][\A c \in Consumers :
             (pc[c] = "take" /\ buf = <<>> /\ pc'[c] # pc[c])
                => (pc'[c] = "loop" /\ got'[c] = got[c] /\ res'[c] = res[c])]_vars

\* c1 saw a buffered byte and is about to fetch it; c2's Read has taken it.
C19_Witness ==
    /\ pc["c1"] = "take"
    /\ got["c1"] = <<>>
    /\ buf = <<>>
    /\ res["c2"] = [n |-> 1, err |-> "nil", kind |-> "fast"]
    /\ delivered = <<1>>

\* The stream is nil or a field of the configuration is negative.
NilOrNegative == io = "nil" \/ defaultTimeout < 0 \/ maxBuffered < 0 \/ vmin < 0

\* C20 (Construction fails fast): NewNonBlocking called with a nil stream
\* or a negative ReadTimeout, MaxReadBuffered or MaxReadSize panics; with
\* such arguments there is never a read goroutine, an underlying read or a
\* stored error, and no adapter is ever returned.
C20_FailsFast ==
    /\ [](NilOrNegative
             => /\ ppc \in {"new", "ctorpanic"}
                /\ produced = <<>>
                /\ chunk = <<>>
                /\ errfield = "nil")
    /\ [][/\ (ppc = "new" /\ ppc' # ppc /\ NilOrNegative) => ppc' = "ctorpanic"
          /\ ppc = "ctorpanic" => ppc' = "ctorpanic"]_vars

\* NewNonBlocking has panicked on a negative MaxReadBuffered alone.
C20_Witness ==
    /\ ppc = "ctorpanic"
    /\ io = "rwc"
    /\ defaultTimeout = 0
    /\ maxBuffered < 0
    /\ vmin = 0

\* C21 (StopBits.Halves): Halves returns 2 for StopBits1, 3 for
\* StopBits1Half, 4 for StopBits2 and 0 for every other value, and a port
\* Goburrow.OpenPort opens is asked for 1 stop bit with StopBits1 and for 2
\* with StopBits2.
C21_HalfBits ==
    /\ halves # NoCall =>
          halves = (IF stopBits = 0 THEN 2
                    ELSE IF stopBits = 1 THEN 3
                    ELSE IF stopBits = 2 THEN 4
                    ELSE 0)
    /\ openErr = "nil" =>
          /\ stopBits = 0 => portStopBits = 1
          /\ stopBits = 2 => portStopBits = 2

\* C22 (when the pump reads), as claimed: an iteration skips the underlying
\* read iff the threshold is non-zero and the buffered length is strictly
\* greater than it; otherwise, the length equal to the threshold included,
\* it issues one underlying read of at most chunk-size bytes.
C22_SkipsAboveThreshold ==
    [][/\ (ppc = "throttle" /\ ppc' # ppc) =>
            /\ ppc' \in {"miss", "read"}
            /\ ppc' = "miss" <=> (maxBuffered # 0 /\ Len(buf) > maxBuffered)
       /\ (ppc = "read" /\ ppc' # ppc) =>
            /\ ppc' \in {"write", "recover"}
            /\ Len(chunk') <= vmin]_vars

\* C22, as the code has it: the read is skipped iff the threshold is
\* non-zero and the buffered length has reached it (equal or greater).
C22_SkipsAtThreshold ==
    [][/\ (ppc = "throttle" /\ ppc' # ppc) =>
            /\ ppc' \in {"miss", "read"}
            /\ ppc' = "miss" <=> (maxBuffered # 0 /\ Len(buf) >= maxBuffered)
       /\ (ppc = "read" /\ ppc' # ppc) =>
            /\ ppc' \in {"write", "recover"}
            /\ Len(chunk') <= vmin]_vars

\* The read goroutine has skipped a read with exactly the threshold buffered
\* (an empty read backs off only below the threshold).
C22_Witness ==
    ppc = "miss" /\ errfield = "nil" /\ Len(buf) = maxBuffered /\ maxBuffered = 2

\* C23 (zero threshold), as claimed: constructed with MaxReadBuffered zero,
\* the read goroutine never skips a read on buffer occupancy.
C23_ZeroIsNoLimit ==
    [][(ppc = "throttle" /\ ppc' # ppc) => ppc' = "read"]_vars

\* C23, as the code has it: constructed with MaxReadBuffered zero, the
\* threshold is 32*1024: the read goroutine reads while fewer bytes are
\* buffered and skips the read once that many are.
C23_ZeroIsDefault ==
    [][(ppc = "throttle" /\ ppc' # ppc) =>
           ppc' = (IF Len(buf) >= DefaultMaxBuffered THEN "miss" ELSE "read")]_vars

\* Constructed with MaxReadBuffered zero, the goroutine has skipped a read
\* with 32*1024 bytes buffered.
C23_Witness == ppc = "miss" /\ Len(buf) = DefaultMaxBuffered

\* C24 (errors other than end-of-stream): when the underlying read returned
\* an error that is not end-of-stream, the goroutine appends the bytes that
\* came with it, leaves the error slot as it is and goes on to its next
\* iteration, through backoff.Miss when the read returned no byte.
C24_OtherErrorIgnored ==
    [][/\ (ppc = "write" /\ rerr = "other" /\ ppc' # ppc) =>
            /\ buf' = buf \o chunk
            /\ errfield' = errfield
            /\ ppc' = (IF chunk = <<>> THEN "miss" ELSE "check")
       /\ (ppc = "miss" /\ ppc' # ppc) => (ppc' = "check" /\ errfield' = errfield)]_vars

\* The underlying read has returned bytes together with an error that is not
\* end-of-stream, with bytes of earlier reads still buffered.
C24_Witness ==
    ppc = "write" /\ rerr = "other" /\ chunk # <<>> /\ buf # <<>> /\ errfield = "nil"

\* C25 (bytes of a read), as claimed: whenever the underlying read returned
\* bytes, the goroutine appends them and calls backoff.Hit, which leaves the
\* wait at StartWait, also when the read signalled end-of-stream; the append
\* changes nothing in the error slot, which the goroutine sets only in a
\* later step of its own.
C25_AppendAndHit ==
    [][/\ (ppc = "write" /\ chunk # <<>> /\ ppc' # ppc) =>
            /\ buf' = buf \o chunk
            /\ wait' = StartWait
            /\ errfield' = errfield
       /\ (errfield' # errfield /\ ppc' # ppc) =>
            ppc \in {"seterr", "recover"}]_vars

\* C25, as the code has it: the bytes are appended in every case, and before
\* the goroutine sets the error slot; backoff.Hit is called when the read
\* did not signal end-of-stream, while on end-of-stream the goroutine goes
\* on to set the slot and return with its wait as it was.
C25_AppendThenHitOrEnd ==
    [][/\ (ppc = "write" /\ chunk # <<>> /\ ppc' # ppc) =>
            /\ buf' = buf \o chunk
            /\ errfield' = errfield
            /\ IF rerr = "EOF"
                 THEN wait' = wait /\ ppc' = "seterr"
                 ELSE wait' = StartWait /\ ppc' = "check"
       /\ (errfield' # errfield /\ ppc' # ppc) =>
            ppc \in {"seterr", "recover"}]_vars

\* A read that followed a miss returned bytes with end-of-stream: the bytes
\* are in the buffer, the slot is not set yet, and the wait is the grown one.
C25_Witness ==
    /\ ppc = "seterr"
    /\ chunk # <<>>
    /\ Len(buf) >= Len(chunk)
    /\ errfield = "nil"
    /\ wait = WaitSeen

\* C26 (terminal error and last bytes): a ReadDeadline call with a non-empty
\* destination that returns the terminal error the read goroutine has set
\* (Close not called) leaves no byte in the buffer: whatever the goroutine
\* appended before it set the error has been returned first.
C26_NoErrorAheadOfBytes ==
    [][\A c \in Consumers :
          (/\ pc[c] # "idle" /\ pc'[c] = "idle"
           /\ dst[c] > 0
           /\ ~closed
           /\ res'[c].err \in {"EOF", "panic"})
             => buf' = <<>>]_vars

\* C27 (a fetch that finds bytes): a fetch goes to its take whenever its
\* occupancy check finds a byte, whatever the deadline and the error slot;
\* the take removes the first min(space left in dst, buffered length) bytes
\* and starts no sleep; and a ReadDeadline that has taken a byte returns
\* with a nil error, also when its deadline was past at the call or the
\* terminal error was set.
C27_TakesWhatIsBuffered ==
    [][\A c \in Consumers :
          /\ (pc[c] = "loop" /\ pc'[c] # "loop")
                => pc'[c] = (IF Len(buf) > 0 THEN "take" ELSE "wait")
          /\ (pc[c] = "take" /\ pc'[c] # "take")
                => LET space == dst[c] - Len(got[c])
                       k == IF space < Len(buf) THEN space ELSE Len(buf)
                   IN /\ buf' = SubSeq(buf, k + 1, Len(buf))
                      /\ slept' = slept
                      /\ pc'[c] = "loop" => got'[c] = got[c] \o SubSeq(buf, 1, k)
                      /\ pc'[c] = "idle" =>
                            (res'[c].n = Len(got[c]) + k /\ res'[c].err = "nil")
          /\ (pc[c] # "idle" /\ pc'[c] = "idle" /\ res'[c].n > 0)
                => res'[c].err = "nil"]_vars

\* A ReadDeadline whose deadline was past when it was called, running with
\* the terminal error set, has taken a byte in its first fetch and has room
\* for more.
C27_Witness ==
    /\ pc["c1"] = "loop"
    /\ got["c1"] # <<>>
    /\ until["c1"] < 0
    /\ ~slept["c1"]
    /\ errfield # "nil"

\* C28 (when ReadDeadline stops), for a non-empty dst: the call returns
\* fewer than len(dst) bytes only out of a fetch that found the deadline past
\* or the terminal error set; a take that leaves room in dst is followed by
\* another fetch, which sleeps while the deadline is ahead, the slot empty
\* and the buffer empty; and the call never returns (0, nil).
C28_StopsWhenFullOrFailed ==
    [][\A c \in Consumers :
          /\ (pc[c] # "idle" /\ pc'[c] = "idle" /\ dst[c] > 0) =>
                /\ res'[c].n < dst[c] =>
                      \/ pc[c] = "wait" /\ until[c] < 0
                      \/ pc[c] = "errchk" /\ errfield # "nil"
                /\ res'[c].n = dst[c] => pc[c] = "take"
                /\ ~(res'[c].n = 0 /\ res'[c].err = "nil")
          /\ (pc[c] = "take" /\ pc'[c] # "take"
                 /\ Len(got[c]) + Len(buf) < dst[c]) => pc'[c] = "loop"
          /\ (pc[c] = "wait" /\ pc'[c] # "wait" /\ until[c] >= 0) => pc'[c] = "errchk"
          /\ (pc[c] = "errchk" /\ pc'[c] # "errchk" /\ errfield = "nil") =>
                pc'[c] = "sleep"]_vars

\* A ReadDeadline holding one byte of a two-byte dst sleeps for more with
\* its deadline ahead.
C28_Witness ==
    /\ pc["c1"] = "sleep"
    /\ dst["c1"] = 2
    /\ Len(got["c1"]) = 1
    /\ until["c1"] > 0

\* C29 (the mutex): nb.mu is never held by the read goroutine while it is
\* inside the underlying read, in a backoff sleep or gone, and never by a
\* caller who is in a poll sleep or reading the clock; so whoever asks for
\* the mutex during an underlying read waits for another critical section at
\* most.
C29_MutexNotHeldAcrossWaits ==
    /\ mu = "pump" => ppc \notin {"read", "miss", "done"}
    /\ \A c \in Consumers :
          mu = c => (pc[c] # "wait" /\ ~(pc[c] = "sleep" /\ sleep[c] > 0))
    /\ (ppc = "read" /\ mu # "free") =>
          (mu \in Consumers /\ pc[mu] \in CallerLocks \cup {"idle", "sleep"})

\* A zero-timeout Read holds the mutex while the read goroutine is inside
\* the underlying read and the other caller sleeps.
C29_Witness ==
    /\ mu = "c2"
    /\ ppc = "read"
    /\ pc["c1"] = "sleep"
    /\ sleep["c1"] > 0

\* C30 (reads after Close): an underlying read starts only out of the
\* backpressure test, and once Close has been called the read goroutine
\* never comes back to that test: it is there at most when Close is called,
\* having passed its loop test before, so it starts one more read at most
\* and none once that read has returned.
C30_OneReadAfterClose ==
    [][/\ (ppc # "read" /\ ppc' = "read") => ppc = "throttle"
       /\ (closed /\ ppc # "throttle") => ppc' # "throttle"
       /\ (closed /\ ppc = "throttle" /\ ppc' # ppc) => ppc' \in {"read", "miss"}]_vars

\* After Close the read goroutine is inside the underlying read, with the
\* slot holding the error Close set.
C30_Witness == closed /\ errfield = "EOF" /\ ppc = "read"

\* C31 (Close and the buffer): Close changes nothing in the buffer; after
\* Close the bytes buffered, held by a call or returned keep their order and
\* none is lost (the read goroutine may still append the chunk of a read in
\* flight); and a Read or ReadDeadline with a non-empty dst that returns
\* bytes after Close returns them with a nil error, so that the
\* end-of-stream error comes only with zero bytes.
C31_CloseKeepsBuffer ==
    [][/\ (~closed /\ closed') => (buf' = buf /\ InHand' = InHand)
       /\ (closed /\ closed') =>
            \/ InHand' = InHand
            \/ ppc = "write" /\ InHand' = InHand \o chunk
       /\ \A c \in Consumers :
            (ReturnStep(c) /\ closed /\ dst'[c] > 0 /\ res'[c].n > 0)
               => res'[c].err = "nil"]_vars

\* C32 (the backoff's wait): for a value with MaxWait > 0 and
\* StartWait <= MaxWait, after any calls of Hit and Miss 0 <= Wait <= MaxWait;
\* a Miss sleeps for the wait it finds and never decreases it: below MaxWait
\* it strictly increases it, at MaxWait it leaves it there; and a Hit
\* leaves Wait = StartWait.
C32_Configured ==
    /\ ebLast \in {"new", "Hit", "Miss"}
    /\ Greater(eb.MaxWait, {})
    /\ ~Greater(eb.StartWait, eb.MaxWait)
Next ==
    \/ Pump
    \/ Caller("c1")
    \/ Close
    \/ Reset
    \/ Tick

Spec == Init /\ [][Next]_vars

\* One caller and no Reset.
NextNoReset ==
    \/ Pump
    \/ Caller("c1")
    \/ Close
    \/ Tick

SpecNoReset == Init /\ [][NextNoReset]_vars

\* As Spec, constructed with MaxReadBuffered and MaxReadSize left at zero.
InitDefault ==
    /\ Init
    /\ maxBuffered = DefaultMaxBuffered
    /\ vmin = DefaultMaxReadSize

SpecDefault == InitDefault /\ [][Next]_vars

\* The read goroutine against small thresholds and read sizes, on a stream of
\* any length, with a caller of the zero-timeout Read, Reset and Close.
InitPump ==
    /\ io = "rwc"
    /\ defaultTimeout = 0
    /\ maxBuffered \in {EffMaxBuffered(m) : m \in PumpMaxReadBuffereds}
    /\ vmin \in {EffMaxReadSize(m) : m \in PumpMaxReadSizes}
    /\ ppc = "check"
    /\ Zeroed
    /\ NoPort
    /\ NoBackoff

NextPump ==
    \/ PumpAny
    \/ ReadFast("c1")
    \/ Reset
    \/ Close

SpecPump == InitPump /\ [][NextPump]_vars

\* As SpecPump, where the read goroutine keeps taking the steps it can take
\* and an underlying read that has started returns.
SpecPumpLive ==
    /\ InitPump
    /\ [][NextPump]_vars
    /\ WF_vars(PumpSteps)
    /\ WF_vars(ReadReturns)

\* Two consumers, c1 calling ReadDeadline and c2 the zero-timeout Read, with
\* Reset, on an adapter constructed with the default limits; time as
\* TickUrgent takes it.
InitMulti ==
    /\ InitDefault
    /\ defaultTimeout = 0

NextMulti ==
    \/ Pump
    \/ CallReadDeadline("c1")
    \/ InCallStep("c1")
    \/ ReadFast("c2")
    \/ Reset
    \/ TickUrgent

SpecMulti == InitMulti /\ [][NextMulti]_vars

\* From the call of NewNonBlocking with any arguments: the read goroutine,
\* and the zero-timeout Read and Close on the adapter once there is one.
ReadFastNew == Constructed /\ ReadFast("c1")
CloseNew == Constructed /\ Close

NextNew ==
    \/ NewNonBlocking
    \/ Pump
    \/ ReadFastNew
    \/ CloseNew

SpecNew == InitNew /\ [][NextNew]_vars

\* One caller on a stream that is silent until Close; time as TickUrgent
\* takes it.
NextClose ==
    \/ PumpCheck
    \/ PumpThrottle
    \/ PumpMiss
    \/ PumpReadLate
    \/ PumpReadPanicLate
    \/ PumpWrite
    \/ PumpSetErr
    \/ PumpRecover
    \/ Caller("c1")
    \/ Close
    \/ TickUrgent

SpecClose == Init /\ [][NextClose]_vars

\* One caller; time as TickUrgent takes it.
NextTimed ==
    \/ Pump
    \/ Caller("c1")
    \/ Close
    \/ TickUrgent

SpecTimed == Init /\ [][NextTimed]_vars

\* A stream that never ends, read by c1 with ReadDeadline and by c2 with the
\* zero-timeout Read.  Every goroutine that can take a step eventually takes
\* one and the clock keeps advancing; nothing makes a caller issue a call,
\* the underlying read return, or Close happen.
InitLive ==
    /\ Init
    /\ defaultTimeout = 0
    /\ maxBuffered = 2
    /\ vmin = 1

NextLive ==
    \/ PumpInternal
    \/ PumpReadEndless
    \/ CallReadDeadline("c1")
    \/ InCallStep("c1")
    \/ ReadFast("c2")
    \/ Close
    \/ Tick

SpecLive ==
    /\ InitLive
    /\ [][NextLive]_vars
    /\ WF_vars(Tick)
    /\ WF_vars(PumpInternal)
    /\ \A c \in Consumers : WF_vars(InCallStep(c))

\* The opening of a port with any stop-bit setting, before any adapter is
\* constructed on it.
InitMode ==
    /\ io = "rwc"
    /\ defaultTimeout = 0
    /\ maxBuffered = 0
    /\ vmin = 0
    /\ ppc = "new"
    /\ Zeroed
    /\ stopBits \in StopBitsValues
    /\ halves = NoCall
    /\ portStopBits = NoCall
    /\ openErr = "none"
    /\ NoBackoff

NextMode ==
    \/ CallHalves
    \/ GoburrowOpenPort

SpecMode == InitMode /\ [][NextMode]_vars

\* An exponentialBackoff value declared with any of the fields of Backoffs,
\* on which Hit and Miss are called in any order; no adapter is constructed.
InitBackoff ==
    /\ io = "rwc"
    /\ defaultTimeout = 0
    /\ maxBuffered = 0
    /\ vmin = 0
    /\ ppc = "new"
    /\ Zeroed
    /\ NoPort
    /\ eb \in Backoffs
    /\ ebLast = "new"
    /\ ebSlept = {}

NextBackoff ==
    \/ EbHit
    \/ EbMiss

SpecBackoff == InitBackoff /\ [][NextBackoff]_vars

\* From NewNonBlocking called with MaxReadBuffered zero and MaxReadSize zero
\* or 32*1024, on a stream that never ends and that no caller reads from.
InitZero ==
    /\ io = "rwc"
    /\ defaultTimeout = 0
    /\ maxBuffered = 0
    /\ vmin \in ZeroMaxReadSizes
    /\ ppc = "new"
    /\ Zeroed
    /\ NoPort
    /\ NoBackoff

NextZero ==
    \/ NewNonBlocking
    \/ PumpCheck
    \/ PumpThrottle
    \/ PumpMiss
    \/ PumpReadFull
    \/ PumpWrite

SpecZero == InitZero /\ [][NextZero]_vars

\* As SpecLive without the fairness, with the taking of nb.mu as a step of
\* its own before each critical section; time as TickUrgent takes it.
NextMutex ==
    \/ PumpInternal
    \/ PumpReadEndless
    \/ PumpLock
    \/ CallReadDeadline("c1")
    \/ InCallStep("c1")
    \/ CallerLock("c1")
    \/ ReadFast("c2")
    \/ ReadLock("c2")
    \/ Close
    \/ TickUrgent

SpecMutex == InitLive /\ [][NextMutex]_vars

=============================================================================
